---- MODULE Spec2Model ----
(***************************************************************************)
(* Model of the symbol tables of src/symboltables.                         *)
(*                                                                         *)
(* BalancedTree (balancedtree.rs) is a binary search tree whose nodes      *)
(* carry the size n of the subtree rooted at them.  A Link<K, V>           *)
(* (Option<Rc<RefCell<Node>>>) is modelled as a sequence of length 0       *)
(* (None) or 1 (Some(node)); a node is a record of its five fields.  No    *)
(* Rc is ever cloned in balancedtree.rs, so every node has one owner and   *)
(* an in-place update through borrow_mut() is the functional update of     *)
(* the record on the path from the root.                                   *)
(***************************************************************************)
EXTENDS Integers, Sequences, FiniteSets, TLC

\* ------------------------------------------------------------------------
\* Bounds of the model
\* ------------------------------------------------------------------------

\* keys that are put are 1..MaxKey
MaxKey == 3

\* values that are put are 1..MaxVal
MaxVal == 2

\* number of put calls in one run
MaxPuts == 3

Keys == 1..MaxKey

Values == 1..MaxVal

\* keys that are asked for: one below and one above every key that is put
QueryKeys == 0..(MaxKey + 1)

\* ranks that are asked for
Ranks == 0..MaxKey

VARIABLES
    root,          \* BalancedTree.root
    compares_put,  \* BalancedTree.compares_put
    panic,         \* "" while the program runs, else the message of the panic that ended it
    ret,           \* the last call: its name, its arguments and what it returned
    history,       \* the put calls made so far, oldest first, as <<key, value>>
    bst,           \* a BinarySearchTree: head, count and the nodes its links point to
    ast,           \* an ArraySymbolTable: items and count
    fc,            \* a run of FrequencyCounter::new: its inputs, its locals and its result
    calls          \* the calls made on bst or ast so far, oldest first, as <<name, item>>

vars == <<root, compares_put, panic, ret, history, bst, ast, fc, calls>>

\* what a call on the BalancedTree leaves alone
other_tables == <<bst, ast, fc, calls>>

\* ------------------------------------------------------------------------
\* Node and Link
\* ------------------------------------------------------------------------

None == << >>

Some(x) == <<x>>

\* Option::is_some
is_some(opt) == opt # None

\* Node::new that starts the subtree count at 0
NewNode_zero_n(key, value, n) ==
    [key |-> key, value |-> value, n |-> 0, left |-> None, right |-> None]

\* Node::new
NewNode(key, value, n) ==
    [key |-> key, value |-> value, n |-> n, left |-> None, right |-> None]

\* ------------------------------------------------------------------------
\* Items (item.rs).  The tests store DoubleItem, whose key is a usize and
\* whose info is 0.0 in every item that with_key or default makes.
\* ------------------------------------------------------------------------

\* item.rs: const MAX_KEY, the key of the null item
MAX_KEY == 1000

\* DoubleItem::with_key
with_key(key_val) == [key_val |-> key_val, info |-> 0]

\* DoubleItem::default
DoubleItem_default == [key_val |-> MAX_KEY, info |-> 0]

\* DoubleItem::key
key_of(item) == item.key_val

\* DoubleItem::null
null(item) == item.key_val = MAX_KEY

\* DoubleItem::eq: items are equal if their keys are equal
item_eq(a, b) == a.key_val = b.key_val

\* BinarySearchTree::new.  heap maps the address of every node that a link
\* points to (an Rc<RefCell<Node>>) to the node; a link is None or
\* Some(address).
BinarySearchTree_new == [head |-> None, heap |-> << >>, count |-> 0]

\* ArraySymbolTable::new
ArraySymbolTable_new(m) == [items |-> [i \in 1..m |-> DoubleItem_default], count |-> 0]

\* no FrequencyCounter::new is running
FrequencyCounter_idle == [pc |-> "idle"]

\* Ord::cmp on keys
cmp(a, b) ==
    IF a < b THEN "Less" ELSE IF a = b THEN "Equal" ELSE "Greater"

\* BalancedTree::_size
_size(link) ==
    IF link = None THEN 0 ELSE link[1].n

\* ------------------------------------------------------------------------
\* put
\* ------------------------------------------------------------------------

RECURSIVE put_r_no_resize(_, _, _)
\* put_r without the recomputation of n on the way back up
put_r_no_resize(link, key, value) ==
    IF link = None
    THEN Some(NewNode(key, value, 1))
    ELSE LET node == link[1]
             ordering == cmp(key, node.key)
         IN  CASE ordering = "Less" ->
                    Some([node EXCEPT !.left = put_r_no_resize(node.left, key, value)])
               [] ordering = "Equal" ->
                    Some([node EXCEPT !.value = value])
               [] ordering = "Greater" ->
                    Some([node EXCEPT !.right = put_r_no_resize(node.right, key, value)])

RECURSIVE put_r_count_calls(_, _, _)
\* put_r that adds one to n at every visited node instead of recomputing it
put_r_count_calls(link, key, value) ==
    IF link = None
    THEN Some(NewNode(key, value, 1))
    ELSE LET node == link[1]
             ordering == cmp(key, node.key)
             node1 ==
                CASE ordering = "Less" ->
                       [node EXCEPT !.left = put_r_count_calls(node.left, key, value)]
                  [] ordering = "Equal" ->
                       [node EXCEPT !.value = value]
                  [] ordering = "Greater" ->
                       [node EXCEPT !.right = put_r_count_calls(node.right, key, value)]
         IN  Some([node1 EXCEPT !.n = node.n + 1])

RECURSIVE put_r_keep_value(_, _, _)
\* put_r that leaves the value of an existing key alone
put_r_keep_value(link, key, value) ==
    IF link = None
    THEN Some(NewNode(key, value, 1))
    ELSE LET node == link[1]
             ordering == cmp(key, node.key)
             node1 ==
                CASE ordering = "Less" ->
                       [node EXCEPT !.left = put_r_keep_value(node.left, key, value)]
                  [] ordering = "Equal" ->
                       node
                  [] ordering = "Greater" ->
                       [node EXCEPT !.right = put_r_keep_value(node.right, key, value)]
         IN  Some([node1 EXCEPT !.n = _size(node1.left) + _size(node1.right) + 1])

RECURSIVE put_r_replace_node(_, _, _)
\* put_r that replaces the node of an existing key by a new single node
put_r_replace_node(link, key, value) ==
    IF link = None
    THEN Some(NewNode(key, value, 1))
    ELSE LET node == link[1]
             ordering == cmp(key, node.key)
             node1 ==
                CASE ordering = "Less" ->
                       [node EXCEPT !.left = put_r_replace_node(node.left, key, value)]
                  [] ordering = "Equal" ->
                       NewNode(key, value, 1)
                  [] ordering = "Greater" ->
                       [node EXCEPT !.right = put_r_replace_node(node.right, key, value)]
             left_size == _size(node1.left)
             right_size == _size(node1.right)
         IN  Some([node1 EXCEPT !.n = left_size + right_size + 1])

RECURSIVE put_r(_, _, _)
\* BalancedTree::put_r: the link after the call
put_r(link, key, value) ==
    IF link = None
    THEN Some(NewNode(key, value, 1))
    ELSE LET node == link[1]
             ordering == cmp(key, node.key)
             node1 ==
                CASE ordering = "Less" ->
                       [node EXCEPT !.left = put_r(node.left, key, value)]
                  [] ordering = "Equal" ->
                       [node EXCEPT !.value = value]
                  [] ordering = "Greater" ->
                       [node EXCEPT !.right = put_r(node.right, key, value)]
             left_size == _size(node1.left)
             right_size == _size(node1.right)
         IN  Some([node1 EXCEPT !.n = left_size + right_size + 1])

RECURSIVE put_r_compares_descents(_, _)
\* put_r that counts a comparison only when it goes down to a child
put_r_compares_descents(link, key) ==
    IF link = None
    THEN 0
    ELSE LET node == link[1]
             ordering == cmp(key, node.key)
         IN  CASE ordering = "Less" -> 1 + put_r_compares_descents(node.left, key)
               [] ordering = "Equal" -> 0
               [] ordering = "Greater" -> 1 + put_r_compares_descents(node.right, key)

RECURSIVE put_r_compares(_, _)
\* BalancedTree::put_r: what the call adds to *compares_put
put_r_compares(link, key) ==
    IF link = None
    THEN 0
    ELSE LET node == link[1]
             ordering == cmp(key, node.key)
         IN  1 + (CASE ordering = "Less" -> put_r_compares(node.left, key)
                    [] ordering = "Equal" -> 0
                    [] ordering = "Greater" -> put_r_compares(node.right, key))

\* ------------------------------------------------------------------------
\* get, contains, size, is_empty
\* ------------------------------------------------------------------------

RECURSIVE get_r(_, _)
\* BalancedTree::get_r
get_r(link, key) ==
    IF link = None
    THEN None
    ELSE LET node == link[1]
             ordering == cmp(key, node.key)
         IN  CASE ordering = "Less" -> get_r(node.left, key)
               [] ordering = "Equal" -> Some(node.value)
               [] ordering = "Greater" -> get_r(node.right, key)

\* BalancedTree::get
get(tree, key) == get_r(tree, key)

\* BalancedTree::contains
contains(tree, key) == is_some(get(tree, key))

\* BalancedTree::size
size(tree) == _size(tree)

\* BalancedTree::is_empty
is_empty(tree) == size(tree) = 0

\* ------------------------------------------------------------------------
\* keys
\* ------------------------------------------------------------------------

RECURSIVE keys_r_preorder(_, _)
\* keys_r that pushes the node's key before it visits the left subtree
keys_r_preorder(link, acc) ==
    IF link = None
    THEN acc
    ELSE LET node == link[1]
         IN  keys_r_preorder(node.right,
                 keys_r_preorder(node.left, Append(acc, node.key)))

RECURSIVE keys_r(_, _)
\* BalancedTree::keys_r: acc after the call
keys_r(link, acc) ==
    IF link = None
    THEN acc
    ELSE LET node == link[1]
         IN  keys_r(node.right, Append(keys_r(node.left, acc), node.key))

\* BalancedTree::keys
keys(tree) == keys_r(tree, << >>)

\* ------------------------------------------------------------------------
\* min, max: the result of a call that may panic is the panic message
\* (empty when the call returned) and the returned value, if any
\* ------------------------------------------------------------------------

Returned(x) == [panic |-> "", val |-> <<x>>]

Panicked(msg) == [panic |-> msg, val |-> << >>]

\* max_r that never follows the right link
max_r_stop_at_root(link) ==
    IF link = None
    THEN Panicked("Empty tree")
    ELSE Returned(link[1].key)

RECURSIVE max_r(_)
\* BalancedTree::max_r
max_r(link) ==
    IF link = None
    THEN Panicked("Empty tree")
    ELSE LET node == link[1]
         IN  IF node.right # None
             THEN max_r(node.right)
             ELSE Returned(node.key)

\* BalancedTree::max
max(tree) == max_r(tree)

RECURSIVE min_r_panic_on_leaf(_)
\* min_r that follows the left link without looking at it first
min_r_panic_on_leaf(link) ==
    IF link = None
    THEN Panicked("Empty tree")
    ELSE min_r_panic_on_leaf(link[1].left)

RECURSIVE min_r(_)
\* BalancedTree::min_r
min_r(link) ==
    IF link = None
    THEN Panicked("Empty tree")
    ELSE LET node == link[1]
         IN  IF node.left # None
             THEN min_r(node.left)
             ELSE Returned(node.key)

\* BalancedTree::min
min(tree) == min_r(tree)

\* ------------------------------------------------------------------------
\* floor, ceiling
\* ------------------------------------------------------------------------

RECURSIVE floor_r_no_fallback(_, _)
\* floor_r that returns what the right subtree gave, also when that is None
floor_r_no_fallback(link, key) ==
    IF link = None
    THEN None
    ELSE LET node == link[1]
             ordering == cmp(key, node.key)
         IN  CASE ordering = "Less" -> floor_r_no_fallback(node.left, key)
               [] ordering = "Equal" -> Some(node.key)
               [] ordering = "Greater" -> floor_r_no_fallback(node.right, key)

RECURSIVE floor_r(_, _)
\* BalancedTree::floor_r
floor_r(link, key) ==
    IF link = None
    THEN None
    ELSE LET node == link[1]
             ordering == cmp(key, node.key)
         IN  CASE ordering = "Less" -> floor_r(node.left, key)
               [] ordering = "Equal" -> Some(node.key)
               [] ordering = "Greater" ->
                    LET t == floor_r(node.right, key)
                    IN  IF is_some(t) THEN t ELSE Some(node.key)

\* BalancedTree::floor
floor(tree, key) == floor_r(tree, key)

RECURSIVE ceiling_r_root_first(_, _)
\* ceiling_r that takes the node's key without asking the left subtree
ceiling_r_root_first(link, key) ==
    IF link = None
    THEN None
    ELSE LET node == link[1]
             ordering == cmp(key, node.key)
         IN  CASE ordering = "Less" -> Some(node.key)
               [] ordering = "Equal" -> Some(node.key)
               [] ordering = "Greater" -> ceiling_r_root_first(node.right, key)

RECURSIVE ceiling_r(_, _)
\* BalancedTree::ceiling_r
ceiling_r(link, key) ==
    IF link = None
    THEN None
    ELSE LET node == link[1]
             ordering == cmp(key, node.key)
         IN  CASE ordering = "Less" ->
                    LET t == ceiling_r(node.left, key)
                    IN  IF is_some(t) THEN t ELSE Some(node.key)
               [] ordering = "Equal" -> Some(node.key)
               [] ordering = "Greater" -> ceiling_r(node.right, key)

\* BalancedTree::ceiling
ceiling(tree, key) == ceiling_r(tree, key)

\* ------------------------------------------------------------------------
\* select, rank: their bodies are todo!(), which panics with this message
\* ------------------------------------------------------------------------

NotYetImplemented == "not yet implemented"

\* BalancedTree::select
select(tree, k) == Panicked(NotYetImplemented)

\* BalancedTree::rank
rank(tree, key) == Panicked(NotYetImplemented)

\* ------------------------------------------------------------------------
\* delete, delete_max, delete_min: todo!() as well; they take &self and
\* leave the table as it is
\* ------------------------------------------------------------------------

\* BalancedTree::delete
delete(tree, key) == Panicked(NotYetImplemented)

\* BalancedTree::delete_max
delete_max(tree) == Panicked(NotYetImplemented)

\* BalancedTree::delete_min
delete_min(tree) == Panicked(NotYetImplemented)

\* ------------------------------------------------------------------------
\* The calls
\* ------------------------------------------------------------------------

Call(op, arg, val) == [op |-> op, arg |-> arg, val |-> val]

Init ==
    /\ root = None
    /\ compares_put = 0
    /\ panic = ""
    /\ ret = Call("new", << >>, << >>)
    /\ history = << >>
    /\ bst = BinarySearchTree_new
    /\ ast = ArraySymbolTable_new(0)
    /\ fc = FrequencyCounter_idle
    /\ calls = << >>

\* BalancedTree::put
Put(key, value) ==
    /\ panic = ""
    /\ Len(history) < MaxPuts
    /\ root' = put_r(root, key, value)
    /\ compares_put' = compares_put + put_r_compares(root, key)
    /\ history' = Append(history, <<key, value>>)
    /\ ret' = Call("put", <<key, value>>, << >>)
    /\ UNCHANGED panic
    /\ UNCHANGED other_tables

\* BalancedTree::get
Get(key) ==
    /\ panic = ""
    /\ ret' = Call("get", <<key>>, get(root, key))
    /\ UNCHANGED <<root, compares_put, panic, history>>
    /\ UNCHANGED other_tables

\* BalancedTree::contains
Contains(key) ==
    /\ panic = ""
    /\ ret' = Call("contains", <<key>>, <<contains(root, key)>>)
    /\ UNCHANGED <<root, compares_put, panic, history>>
    /\ UNCHANGED other_tables

\* BalancedTree::size
Size ==
    /\ panic = ""
    /\ ret' = Call("size", << >>, <<size(root)>>)
    /\ UNCHANGED <<root, compares_put, panic, history>>
    /\ UNCHANGED other_tables

\* BalancedTree::is_empty
IsEmpty ==
    /\ panic = ""
    /\ ret' = Call("is_empty", << >>, <<is_empty(root)>>)
    /\ UNCHANGED <<root, compares_put, panic, history>>
    /\ UNCHANGED other_tables

\* BalancedTree::keys
KeysCall ==
    /\ panic = ""
    /\ ret' = Call("keys", << >>, keys(root))
    /\ UNCHANGED <<root, compares_put, panic, history>>
    /\ UNCHANGED other_tables

\* BalancedTree::max
Max ==
    /\ panic = ""
    /\ LET r == max(root)
       IN  /\ ret' = Call("max", << >>, r.val)
           /\ panic' = r.panic
    /\ UNCHANGED <<root, compares_put, history>>
    /\ UNCHANGED other_tables

\* BalancedTree::min
Min ==
    /\ panic = ""
    /\ LET r == min(root)
       IN  /\ ret' = Call("min", << >>, r.val)
           /\ panic' = r.panic
    /\ UNCHANGED <<root, compares_put, history>>
    /\ UNCHANGED other_tables

\* BalancedTree::floor
Floor(key) ==
    /\ panic = ""
    /\ ret' = Call("floor", <<key>>, floor(root, key))
    /\ UNCHANGED <<root, compares_put, panic, history>>
    /\ UNCHANGED other_tables

\* BalancedTree::ceiling
Ceiling(key) ==
    /\ panic = ""
    /\ ret' = Call("ceiling", <<key>>, ceiling(root, key))
    /\ UNCHANGED <<root, compares_put, panic, history>>
    /\ UNCHANGED other_tables

\* BalancedTree::select
Select(k) ==
    /\ panic = ""
    /\ LET r == select(root, k)
       IN  /\ ret' = Call("select", <<k>>, r.val)
           /\ panic' = r.panic
    /\ UNCHANGED <<root, compares_put, history>>
    /\ UNCHANGED other_tables

\* BalancedTree::rank
Rank(key) ==
    /\ panic = ""
    /\ LET r == rank(root, key)
       IN  /\ ret' = Call("rank", <<key>>, r.val)
           /\ panic' = r.panic
    /\ UNCHANGED <<root, compares_put, history>>
    /\ UNCHANGED other_tables

\* BalancedTree::delete
Delete(key) ==
    /\ panic = ""
    /\ LET r == delete(root, key)
       IN  /\ ret' = Call("delete", <<key>>, r.val)
           /\ panic' = r.panic
    /\ UNCHANGED <<root, compares_put, history>>
    /\ UNCHANGED other_tables

\* BalancedTree::delete_max
DeleteMax ==
    /\ panic = ""
    /\ LET r == delete_max(root)
       IN  /\ ret' = Call("delete_max", << >>, r.val)
           /\ panic' = r.panic
    /\ UNCHANGED <<root, compares_put, history>>
    /\ UNCHANGED other_tables

\* BalancedTree::delete_min
DeleteMin ==
    /\ panic = ""
    /\ LET r == delete_min(root)
       IN  /\ ret' = Call("delete_min", << >>, r.val)
           /\ panic' = r.panic
    /\ UNCHANGED <<root, compares_put, history>>
    /\ UNCHANGED other_tables

Next ==
    \/ \E key \in Keys, value \in Values : Put(key, value)
    \/ \E key \in QueryKeys : Get(key)
    \/ \E key \in QueryKeys : Contains(key)
    \/ Size
    \/ IsEmpty
    \/ KeysCall
    \/ Max
    \/ Min
    \/ \E key \in QueryKeys : Floor(key)
    \/ \E key \in QueryKeys : Ceiling(key)
    \/ \E k \in Ranks : Select(k)
    \/ \E key \in QueryKeys : Rank(key)
    \/ \E key \in QueryKeys : Delete(key)
    \/ DeleteMax
    \/ DeleteMin

Spec == Init /\ [][Next]_vars

\* ------------------------------------------------------------------------
\* BinarySearchTree (binarysearchtree.rs)
\*
\* Its links are Rc<RefCell<Node>> that the rotations clone, so the nodes
\* live in bst.heap, a function from addresses to nodes, and a link is None
\* or Some(address).  A call that takes root: &mut Link<I> is an operator
\* from the heap and the link to the heap and the link after the call.
\* ------------------------------------------------------------------------

\* items that are inserted have the keys 1..MaxItemKey
MaxItemKey == 3

\* number of insert, insert_at_root and rotate calls in one run
MaxCalls == 4

Items == {with_key(k) : k \in 1..MaxItemKey}

\* keys that are searched for
SearchKeys == 0..(MaxItemKey + 1)

\* the address Rc::new gives a new node: the smallest one not in use
alloc(h) ==
    CHOOSE a \in 1..(Cardinality(DOMAIN h) + 1) :
        /\ a \notin DOMAIN h
        /\ \A b \in 1..(a - 1) : b \in DOMAIN h

\* binarysearchtree.rs Node::new: the heap with the new node, and the link to it
Node_new(h, item) ==
    LET a == alloc(h)
    IN  [heap |-> h @@ (a :> [item |-> item, left |-> None, right |-> None]),
         link |-> Some(a)]

RECURSIVE insert_r(_, _, _)
\* BinarySearchTree::insert_r
insert_r(h, link, item) ==
    IF link = None
    THEN Node_new(h, item)
    ELSE LET node == link[1]
         IN  IF key_of(item) < key_of(h[node].item)
             THEN LET r == insert_r(h, h[node].left, item)
                  IN  [heap |-> [r.heap EXCEPT ![node].left = r.link], link |-> link]
             ELSE LET r == insert_r(h, h[node].right, item)
                  IN  [heap |-> [r.heap EXCEPT ![node].right = r.link], link |-> link]

\* do_rotate_right that forgets to hand E's right subtree to S
do_rotate_right_drop_subtree(h, link) ==
    IF link # None /\ h[link[1]].left # None
    THEN LET s_node == link[1]
             e_node == h[s_node].left[1]
             h1 == [h EXCEPT ![s_node].left = None]
         IN  [heap |-> [h1 EXCEPT ![e_node].right = Some(s_node)], link |-> Some(e_node)]
    ELSE [heap |-> h, link |-> None]

\* do_rotate_right that gives S a clone of E's left link instead of taking
\* E's right link
do_rotate_right_share_left(h, link) ==
    IF link # None /\ h[link[1]].left # None
    THEN LET s_node == link[1]
             e_node == h[s_node].left[1]
             h2 == [h EXCEPT ![s_node].left = h[e_node].left]
             h3 == [h2 EXCEPT ![e_node].right = Some(s_node)]
         IN  [heap |-> h3, link |-> Some(e_node)]
    ELSE [heap |-> h, link |-> None]

\* BinarySearchTree::do_rotate_right: the heap after the call and the link
\* it returns
do_rotate_right(h, link) ==
    IF link # None /\ h[link[1]].left # None
    THEN LET s_node == link[1]
             e_node == h[s_node].left[1]
             \* s.left = e_node.borrow_mut().right.take()
             taken == h[e_node].right
             h1 == [h EXCEPT ![e_node].right = None]
             h2 == [h1 EXCEPT ![s_node].left = taken]
             \* e_node.borrow_mut().right = Some(s_node.clone())
             h3 == [h2 EXCEPT ![e_node].right = Some(s_node)]
         IN  [heap |-> h3, link |-> Some(e_node)]
    ELSE [heap |-> h, link |-> None]

\* BinarySearchTree::rotate_right: the heap and *root after the call
rotate_right(h, link) == do_rotate_right(h, link)

\* do_rotate_left that forgets to hand E's left subtree to A
do_rotate_left_drop_subtree(h, link) ==
    IF link # None /\ h[link[1]].right # None
    THEN LET a_node == link[1]
             e_node == h[a_node].right[1]
             h1 == [h EXCEPT ![a_node].right = None]
         IN  [heap |-> [h1 EXCEPT ![e_node].left = Some(a_node)], link |-> Some(e_node)]
    ELSE [heap |-> h, link |-> None]

\* BinarySearchTree::do_rotate_left: the heap after the call and the link
\* it returns
do_rotate_left(h, link) ==
    IF link # None /\ h[link[1]].right # None
    THEN LET a_node == link[1]
             e_node == h[a_node].right[1]
             \* a.right = e_node.borrow_mut().left.take()
             taken == h[e_node].left
             h1 == [h EXCEPT ![e_node].left = None]
             h2 == [h1 EXCEPT ![a_node].right = taken]
             \* e_node.borrow_mut().left = Some(a_node.clone())
             h3 == [h2 EXCEPT ![e_node].left = Some(a_node)]
         IN  [heap |-> h3, link |-> Some(e_node)]
    ELSE [heap |-> h, link |-> None]

\* BinarySearchTree::rotate_left: the heap and *root after the call
rotate_left(h, link) == do_rotate_left(h, link)

RECURSIVE insert_at_root_r_no_rotation(_, _, _)
\* insert_at_root_r without the rotations on the way back up
insert_at_root_r_no_rotation(h, link, item) ==
    IF link = None
    THEN Node_new(h, item)
    ELSE LET node == link[1]
         IN  IF key_of(item) < key_of(h[node].item)
             THEN LET r == insert_at_root_r_no_rotation(h, h[node].left, item)
                  IN  [heap |-> [r.heap EXCEPT ![node].left = r.link], link |-> link]
             ELSE LET r == insert_at_root_r_no_rotation(h, h[node].right, item)
                  IN  [heap |-> [r.heap EXCEPT ![node].right = r.link], link |-> link]

RECURSIVE insert_at_root_r(_, _, _)
\* BinarySearchTree::insert_at_root_r
insert_at_root_r(h, link, item) ==
    IF link = None
    THEN Node_new(h, item)
    ELSE LET node == link[1]
         IN  IF key_of(item) < key_of(h[node].item)
             THEN LET r == insert_at_root_r(h, h[node].left, item)
                  IN  rotate_right([r.heap EXCEPT ![node].left = r.link], link)
             ELSE LET r == insert_at_root_r(h, h[node].right, item)
                  IN  rotate_left([r.heap EXCEPT ![node].right = r.link], link)

RECURSIVE search_r_first_node(_, _, _)
\* search_r that answers with the first node it meets
search_r_first_node(h, link, key) ==
    IF link = None
    THEN None
    ELSE Some(h[link[1]].item)

RECURSIVE search_r(_, _, _)
\* BinarySearchTree::search_r
search_r(h, link, key) ==
    IF link = None
    THEN None
    ELSE LET node == h[link[1]]
             ordering == cmp(key, key_of(node.item))
         IN  CASE ordering = "Less" -> search_r(h, node.left, key)
               [] ordering = "Equal" -> Some(node.item)
               [] ordering = "Greater" -> search_r(h, node.right, key)

RECURSIVE show_r(_, _, _)
\* BinarySearchTree::show_r: acc after the call
show_r(h, link, acc) ==
    IF link = None
    THEN acc
    ELSE LET node == h[link[1]]
         IN  show_r(h, node.right, Append(show_r(h, node.left, acc), node.item))

\* BinarySearchTree::show
show(t) == show_r(t.heap, t.head, << >>)

\* BinarySearchTree::search
search(t, key) == search_r(t.heap, t.head, key)

\* BinarySearchTree::count
count(t) == t.count

RECURSIVE owned(_, _)
\* the addresses of the nodes that a link owns, itself included
owned(h, link) ==
    IF link = None
    THEN {}
    ELSE {link[1]} \cup owned(h, h[link[1]].left) \cup owned(h, h[link[1]].right)

\* Rc drop: a node that no link owns any more is freed
drop_unowned(h, head) == [a \in owned(h, head) |-> h[a]]

\* what a call on the BinarySearchTree leaves alone
not_bst == <<root, compares_put, history, ast, fc>>

\* BinarySearchTree::insert
Insert(item) ==
    /\ panic = ""
    /\ Len(calls) < MaxCalls
    /\ LET r == insert_r(bst.heap, bst.head, item)
       IN  bst' = [head |-> r.link, heap |-> r.heap, count |-> bst.count + 1]
    /\ calls' = Append(calls, <<"insert", item>>)
    /\ ret' = Call("insert", <<item>>, << >>)
    /\ UNCHANGED panic
    /\ UNCHANGED not_bst

\* BinarySearchTree::insert_at_root
InsertAtRoot(item) ==
    /\ panic = ""
    /\ Len(calls) < MaxCalls
    /\ LET r == insert_at_root_r(bst.heap, bst.head, item)
       IN  bst' = [bst EXCEPT !.head = r.link, !.heap = drop_unowned(r.heap, r.link)]
    /\ calls' = Append(calls, <<"insert_at_root", item>>)
    /\ ret' = Call("insert_at_root", <<item>>, << >>)
    /\ UNCHANGED panic
    /\ UNCHANGED not_bst

\* BinarySearchTree::rotate_right(&mut bst.head)
RotateRight ==
    /\ panic = ""
    /\ Len(calls) < MaxCalls
    /\ LET r == rotate_right(bst.heap, bst.head)
       IN  bst' = [bst EXCEPT !.head = r.link, !.heap = drop_unowned(r.heap, r.link)]
    /\ calls' = Append(calls, <<"rotate_right", DoubleItem_default>>)
    /\ ret' = Call("rotate_right", << >>, << >>)
    /\ UNCHANGED panic
    /\ UNCHANGED not_bst

\* BinarySearchTree::rotate_left(&mut bst.head)
RotateLeft ==
    /\ panic = ""
    /\ Len(calls) < MaxCalls
    /\ LET r == rotate_left(bst.heap, bst.head)
       IN  bst' = [bst EXCEPT !.head = r.link, !.heap = drop_unowned(r.heap, r.link)]
    /\ calls' = Append(calls, <<"rotate_left", DoubleItem_default>>)
    /\ ret' = Call("rotate_left", << >>, << >>)
    /\ UNCHANGED panic
    /\ UNCHANGED not_bst

\* BinarySearchTree::search
Search(key) ==
    /\ panic = ""
    /\ ret' = Call("search", <<key>>, search(bst, key))
    /\ UNCHANGED <<panic, bst, calls>>
    /\ UNCHANGED not_bst

\* BinarySearchTree::show
Show ==
    /\ panic = ""
    /\ ret' = Call("show", << >>, show(bst))
    /\ UNCHANGED <<panic, bst, calls>>
    /\ UNCHANGED not_bst

\* BinarySearchTree::count
Count ==
    /\ panic = ""
    /\ ret' = Call("count", << >>, <<count(bst)>>)
    /\ UNCHANGED <<panic, bst, calls>>
    /\ UNCHANGED not_bst

NextBST ==
    \/ \E item \in Items : Insert(item)
    \/ \E item \in Items : InsertAtRoot(item)
    \/ RotateRight
    \/ RotateLeft
    \/ \E key \in SearchKeys : Search(key)
    \/ Show
    \/ Count

SpecBST == Init /\ [][NextBST]_vars

\* ------------------------------------------------------------------------
\* ArraySymbolTable (symboltable.rs).  items is a Vec of m items; items[i]
\* of the source is at(items, i) here, a sequence being indexed from 1.
\* ------------------------------------------------------------------------

\* the m of ArraySymbolTable::new(m)
Capacity == 3

\* keys that are searched for in the array: SearchKeys and the key of the
\* null item
ArraySearchKeys == SearchKeys \cup {MAX_KEY}

IndexOutOfBounds == "index out of bounds"

\* items[i]
at(items, i) == items[i + 1]

\* items[i] = x
set_at(items, i, x) == [items EXCEPT ![i + 1] = x]

RECURSIVE array_search_scan(_, _, _)
\* ArraySymbolTable::search, the for loop: k when it ends, i being the next
\* index it looks at
array_search_scan(t, key, i) ==
    IF i < t.count
    THEN IF key_of(at(t.items, i)) >= key
         THEN i
         ELSE array_search_scan(t, key, i + 1)
    ELSE i

\* ArraySymbolTable::search
array_search(t, key) ==
    LET k == array_search_scan(t, key, 0)
    IN  IF k >= Len(t.items)
        THEN Panicked(IndexOutOfBounds)
        ELSE IF key = key_of(at(t.items, k))
             THEN [panic |-> "", val |-> Some(at(t.items, k))]
             ELSE [panic |-> "", val |-> None]

RECURSIVE array_insert_shift(_, _, _)
\* ArraySymbolTable::insert, the while loop and the store that follows it:
\* the items after them, i being the index the loop is at
array_insert_shift(items, item, i) ==
    IF i > 0 /\ key_of(item) < key_of(at(items, i - 1))
    THEN array_insert_shift(set_at(items, i, at(items, i - 1)), item, i - 1)
    ELSE set_at(items, i, item)

\* ArraySymbolTable::insert: the panic, if any, and the table after the call
array_insert(t, item) ==
    IF t.count >= Len(t.items)
    THEN [panic |-> IndexOutOfBounds, table |-> t]
    ELSE [panic |-> "",
          table |-> [items |-> array_insert_shift(t.items, item, t.count),
                     count |-> t.count + 1]]

\* ArraySymbolTable::find_index: the first index below count whose item
\* equals item
find_index(t, item) ==
    LET found == {i \in 0..(t.count - 1) : item_eq(at(t.items, i), item)}
    IN  IF found = {}
        THEN None
        ELSE Some(CHOOSE i \in found : \A j \in found : i <= j)

RECURSIVE array_remove_shift(_, _, _)
\* ArraySymbolTable::remove, the while loop: the panic, if any, and the
\* items when it ends, j being the index the loop is at
array_remove_shift(items, n, j) ==
    IF j < n
    THEN IF j + 1 >= Len(items)
         THEN [panic |-> IndexOutOfBounds, items |-> items]
         ELSE array_remove_shift(set_at(items, j, at(items, j + 1)), n, j + 1)
    ELSE [panic |-> "", items |-> items]

\* ArraySymbolTable::remove: the panic, if any, and the table after the
\* call; count stays as it is
array_remove(t, item) ==
    LET found == find_index(t, item)
    IN  IF found = None
        THEN [panic |-> "", table |-> t]
        ELSE LET r == array_remove_shift(t.items, t.count, found[1])
             IN  IF r.panic # ""
                 THEN [panic |-> r.panic, table |-> [t EXCEPT !.items = r.items]]
                 ELSE [panic |-> "",
                       table |-> [t EXCEPT !.items =
                                     set_at(r.items, t.count - 1, DoubleItem_default)]]

RECURSIVE array_show_from(_, _, _)
\* ArraySymbolTable::show, the while loop: result when it ends, i being the
\* index the loop is at
array_show_from(t, i, result) ==
    IF i < t.count
    THEN array_show_from(t, i + 1,
             IF ~null(at(t.items, i)) THEN Append(result, at(t.items, i)) ELSE result)
    ELSE result

\* ArraySymbolTable::show
array_show(t) == array_show_from(t, 0, << >>)

\* ArraySymbolTable::count
array_count(t) == t.count

\* what a call on the ArraySymbolTable leaves alone
not_ast == <<root, compares_put, history, bst, fc>>

InitAST ==
    /\ root = None
    /\ compares_put = 0
    /\ panic = ""
    /\ ret = Call("new", <<Capacity>>, << >>)
    /\ history = << >>
    /\ bst = BinarySearchTree_new
    /\ ast = ArraySymbolTable_new(Capacity)
    /\ fc = FrequencyCounter_idle
    /\ calls = << >>

\* ArraySymbolTable::insert
ArrayInsert(item) ==
    /\ panic = ""
    /\ Len(calls) < MaxCalls
    /\ LET r == array_insert(ast, item)
       IN  /\ ast' = r.table
           /\ panic' = r.panic
    /\ calls' = Append(calls, <<"insert", item>>)
    /\ ret' = Call("insert", <<item>>, << >>)
    /\ UNCHANGED not_ast

\* ArraySymbolTable::search
ArraySearch(key) ==
    /\ panic = ""
    /\ LET r == array_search(ast, key)
       IN  /\ ret' = Call("search", <<key>>, r.val)
           /\ panic' = r.panic
    /\ UNCHANGED <<ast, calls>>
    /\ UNCHANGED not_ast

\* ArraySymbolTable::remove
ArrayRemove(item) ==
    /\ panic = ""
    /\ Len(calls) < MaxCalls
    /\ LET r == array_remove(ast, item)
       IN  /\ ast' = r.table
           /\ panic' = r.panic
    /\ calls' = Append(calls, <<"remove", item>>)
    /\ ret' = Call("remove", <<item>>, << >>)
    /\ UNCHANGED not_ast

\* ArraySymbolTable::show
ArrayShow ==
    /\ panic = ""
    /\ ret' = Call("show", << >>, array_show(ast))
    /\ UNCHANGED <<panic, ast, calls>>
    /\ UNCHANGED not_ast

\* ArraySymbolTable::count
ArrayCount ==
    /\ panic = ""
    /\ ret' = Call("count", << >>, <<array_count(ast)>>)
    /\ UNCHANGED <<panic, ast, calls>>
    /\ UNCHANGED not_ast

NextAST ==
    \/ \E item \in Items : ArrayInsert(item)
    \/ \E key \in ArraySearchKeys : ArraySearch(key)
    \/ \E item \in Items : ArrayRemove(item)
    \/ ArrayShow
    \/ ArrayCount

SpecAST == InitAST /\ [][NextAST]_vars

\* ------------------------------------------------------------------------
\* FrequencyCounter (frequencycounter.rs), over a BalancedTree<String, u32>.
\*
\* The Strings of the model are "" and the six words of WordStrings, which
\* lists them in ascending (Ord) order; a String is its position in that
\* order, 0 for "", so that Ord::cmp on Strings is cmp on positions.  The
\* input is the sequence of words that the lines of the file split into.
\* ------------------------------------------------------------------------

WordStrings == <<"a", "aa", "ab", "b", "ba", "bb">>

Words == DOMAIN WordStrings

\* "".to_string()
EmptyString == 0

\* String::len
str_len(word) == IF word = EmptyString THEN 0 ELSE Len(WordStrings[word])

\* number of words in the file
MaxInputLen == 4

\* the min_length of FrequencyCounter::new
MinLengths == 0..3

\* Option::unwrap
unwrap(opt) == opt[1]

\* the body of the inner for loop that counts every word, whatever its length
fc_word_no_filter(s, word) ==
    IF ~ contains(s.tree, word)
    THEN [s EXCEPT !.words = s.words + 1,
                   !.tree = put_r(s.tree, word, 1),
                   !.distinct = s.distinct + 1]
    ELSE LET current_count == unwrap(get(s.tree, word))
         IN  [s EXCEPT !.words = s.words + 1,
                       !.tree = put_r(s.tree, word, current_count + 1)]

\* FrequencyCounter::new, the body of the inner for loop: the locals words,
\* distinct and tree after it
fc_word(s, word) ==
    IF str_len(word) < s.min_length
    THEN s
    ELSE IF ~ contains(s.tree, word)
         THEN [s EXCEPT !.words = s.words + 1,
                        !.tree = put_r(s.tree, word, 1),
                        !.distinct = s.distinct + 1]
         ELSE LET current_count == unwrap(get(s.tree, word))
              IN  [s EXCEPT !.words = s.words + 1,
                            !.tree = put_r(s.tree, word, current_count + 1)]

RECURSIVE fc_find_max_first_key(_, _, _)
\* the loop over tree.keys() that takes every key it sees
fc_find_max_first_key(tree, ks, max_word) ==
    IF ks = << >>
    THEN max_word
    ELSE fc_find_max_first_key(tree, Tail(ks), Head(ks))

RECURSIVE fc_find_max(_, _, _)
\* FrequencyCounter::new, the loop over tree.keys(): max after it
fc_find_max(tree, ks, max_word) ==
    IF ks = << >>
    THEN max_word
    ELSE LET word == Head(ks)
         IN  IF unwrap(get(tree, word)) > unwrap(get(tree, max_word))
             THEN fc_find_max(tree, Tail(ks), word)
             ELSE fc_find_max(tree, Tail(ks), max_word)

\* FrequencyCounter::new, from `let mut max` on: the FrequencyCounter it returns
fc_result(s) ==
    LET tree1 == put_r(s.tree, EmptyString, 0)
        max_word == fc_find_max(tree1, keys(tree1), EmptyString)
        frequency == unwrap(get(tree1, max_word))
    IN  [words |-> s.words, distinct |-> s.distinct,
         max |-> max_word, frequency |-> frequency]

\* what a run of FrequencyCounter::new leaves alone
not_fc == <<root, compares_put, panic, history, bst, ast, calls>>

\* FrequencyCounter::new is called on a file of at most MaxInputLen words
InitFC ==
    /\ root = None
    /\ compares_put = 0
    /\ panic = ""
    /\ history = << >>
    /\ bst = BinarySearchTree_new
    /\ ast = ArraySymbolTable_new(0)
    /\ calls = << >>
    /\ \E n \in 0..MaxInputLen, min_length \in MinLengths :
          \E input \in [1..n -> Words] :
             /\ fc = [pc |-> "words", input |-> input, min_length |-> min_length,
                      i |-> 0, words |-> 0, distinct |-> 0, tree |-> None,
                      result |-> None]
             /\ ret = Call("FrequencyCounter::new", <<input, min_length>>, << >>)

\* FrequencyCounter::new: one pass of the inner for loop
FcWord ==
    /\ fc.pc = "words"
    /\ fc.i < Len(fc.input)
    /\ fc' = [fc_word(fc, fc.input[fc.i + 1]) EXCEPT !.i = fc.i + 1]
    /\ UNCHANGED ret
    /\ UNCHANGED not_fc

\* FrequencyCounter::new: the file is read; find the key with the highest
\* frequency and return
FcFindMax ==
    /\ fc.pc = "words"
    /\ fc.i = Len(fc.input)
    /\ fc' = [fc EXCEPT !.pc = "done", !.result = Some(fc_result(fc))]
    /\ ret' = [ret EXCEPT !.val = Some(fc_result(fc))]
    /\ UNCHANGED not_fc

NextFC ==
    \/ FcWord
    \/ FcFindMax

SpecFC == InitFC /\ [][NextFC]_vars

\* ------------------------------------------------------------------------
\* What the put calls made so far say the table holds
\* ------------------------------------------------------------------------

\* the keys that were put
KeysPut(h) == {h[i][1] : i \in DOMAIN h}

\* the value of the most recent put of key k, None if k was never put
LastPut(h, k) ==
    IF k \in KeysPut(h)
    THEN LET i == CHOOSE i \in DOMAIN h :
                    /\ h[i][1] = k
                    /\ \A j \in DOMAIN h : h[j][1] = k => j <= i
         IN  Some(h[i][2])
    ELSE None

Range(s) == {s[i] : i \in DOMAIN s}

StrictlyAscending(s) == \A i, j \in DOMAIN s : i < j => s[i] < s[j]

Largest(S) == CHOOSE x \in S : \A y \in S : y <= x

Smallest(S) == CHOOSE x \in S : \A y \in S : x <= y

\* the nodes of a tree, each as a link
RECURSIVE Nodes(_)
Nodes(link) ==
    IF link = None
    THEN {}
    ELSE {link} \cup Nodes(link[1].left) \cup Nodes(link[1].right)

\* ------------------------------------------------------------------------
\* C1..C10: BalancedTree
\* ------------------------------------------------------------------------

\* C1: after any sequence of put calls from the empty table, every node has
\* n = 1 + size(left) + size(right), an absent child having size 0.
C1_SizeInvariant ==
    \A l \in Nodes(root) :
        l[1].n = 1 + _size(l[1].left) + _size(l[1].right)

\* a tree of two nodes built by three puts, the last one of the key that is
\* already in the child of the root
C1_Witness ==
    /\ ret.op = "put"
    /\ Len(history) = 3
    /\ Cardinality(Nodes(root)) = 2
    /\ ret.arg[1] \in KeysPut(SubSeq(history, 1, 2))
    /\ ret.arg[1] # root[1].key
    /\ root[1].n = 2

\* C2: keys() returns the distinct keys that were put, each once, in strictly
\* ascending order, whatever the order of the puts.
C2_KeysSorted ==
    ret.op = "keys" =>
        /\ StrictlyAscending(ret.val)
        /\ Range(ret.val) = KeysPut(history)
        /\ Len(ret.val) = Cardinality(KeysPut(history))

\* keys() of three keys that were put in descending order
C2_Witness ==
    /\ ret.op = "keys"
    /\ Len(ret.val) = 3
    /\ Len(history) = 3
    /\ history[1][1] > history[2][1]
    /\ history[2][1] > history[3][1]

\* C3: a put of a key that is already in the table leaves size() and the
\* root's n unchanged, and get of that key then gives the value just put (so
\* put(k, v1); put(k, v2) gives get(k) = Some(v2)).
C3_IdempotentUpdate ==
    [][(ret'.op = "put" /\ ret'.arg[1] \in KeysPut(history)) =>
          /\ size(root') = size(root)
          /\ root'[1].n = root[1].n
          /\ get(root', ret'.arg[1]) = Some(ret'.arg[2])]_vars

\* put(k, v1); put(k, v2) with v1 # v2 on a table that holds other keys
C3_Witness ==
    /\ ret.op = "put"
    /\ Len(history) = 3
    /\ history[2][1] = history[3][1]
    /\ history[2][2] # history[3][2]
    /\ get(root, history[3][1]) = Some(history[3][2])
    /\ size(root) = 2

\* C4: get(k) is Some(v) for v the value of the most recent put(k, _) and
\* None if k was never put; contains(k) is true exactly when get(k) is Some;
\* a put on another key never changes get(k).
C4_MapState ==
    /\ \A k \in QueryKeys :
          /\ get(root, k) = LastPut(history, k)
          /\ contains(root, k) <=> is_some(get(root, k))
          /\ contains(root, k) <=> k \in KeysPut(history)
    /\ ret.op = "get" => ret.val = LastPut(history, ret.arg[1])
    /\ ret.op = "contains" => ret.val[1] = (ret.arg[1] \in KeysPut(history))

C4_PutFrame ==
    ret'.op = "put" =>
        \A k \in QueryKeys \ {ret'.arg[1]} : get(root', k) = get(root, k)

C4_Map == [](C4_MapState) /\ [][C4_PutFrame]_vars

\* get of a key that was put twice with different values, another key
\* having been put after
C4_Witness ==
    /\ ret.op = "get"
    /\ Len(history) = 3
    /\ history[1][1] = ret.arg[1]
    /\ history[2][1] = ret.arg[1]
    /\ history[1][2] # history[2][2]
    /\ history[3][1] # ret.arg[1]
    /\ ret.val = Some(history[2][2])

\* C5: size() is the number of distinct keys put so far, which is the root's
\* n and the length of keys(); it is 0, and is_empty() is true, exactly for a
\* table into which nothing was put.
C5_Size ==
    /\ ret.op = "size" =>
          /\ ret.val[1] = Cardinality(KeysPut(history))
          /\ ret.val[1] = Len(keys(root))
          /\ ret.val[1] = (IF root = None THEN 0 ELSE root[1].n)
          /\ ret.val[1] = 0 <=> history = << >>
    /\ ret.op = "is_empty" => (ret.val[1] <=> history = << >>)

\* size() = 2 after three puts
C5_Witness ==
    /\ ret.op = "size"
    /\ ret.val[1] = 2
    /\ Len(history) = 3

\* C6: on a non-empty table min() is the smallest key and max() the largest
\* key of the table, the first and the last element of keys().
C6_MinMax ==
    /\ (ret.op = "min" /\ history # << >>) =>
          /\ ret.val = Some(Smallest(KeysPut(history)))
          /\ ret.val = Some(Head(keys(root)))
    /\ (ret.op = "max" /\ history # << >>) =>
          /\ ret.val = Some(Largest(KeysPut(history)))
          /\ ret.val = Some(keys(root)[Len(keys(root))])

\* max() of a table of three keys whose largest key is not at the root
C6_Witness ==
    /\ ret.op = "max"
    /\ Cardinality(KeysPut(history)) = 3
    /\ ret.val = Some(Largest(KeysPut(history)))
    /\ ret.val[1] # root[1].key

\* C7: min() and max() panic with "Empty tree" on an empty table and never
\* panic on a non-empty one.
C7_EmptyPanics ==
    ret.op \in {"min", "max"} =>
        /\ history = << >> => (panic = "Empty tree" /\ ret.val = None)
        /\ history # << >> => (panic = "" /\ is_some(ret.val))

\* min() was called on the empty table
C7_Witness ==
    /\ ret.op = "min"
    /\ root = None
    /\ panic = "Empty tree"

\* C8: floor(q) is Some(f) for f the largest key of the table with f <= q,
\* and None exactly when every key of the table is greater than q.
C8_Floor ==
    ret.op = "floor" =>
        LET q == ret.arg[1]
            below == {k \in KeysPut(history) : k <= q}
        IN  /\ below # {} => ret.val = Some(Largest(below))
            /\ below = {} <=> ret.val = None

\* floor of a key that is not in the table, answered by a node that is not
\* the root, in a table that also holds a larger key
C8_Witness ==
    /\ ret.op = "floor"
    /\ ret.arg[1] \notin KeysPut(history)
    /\ is_some(ret.val)
    /\ ret.val[1] # root[1].key
    /\ \E k \in KeysPut(history) : k > ret.arg[1]

\* C9: ceiling(q) is Some(c) for c the smallest key of the table with c >= q,
\* and None exactly when every key of the table is less than q.
C9_Ceiling ==
    ret.op = "ceiling" =>
        LET q == ret.arg[1]
            above == {k \in KeysPut(history) : k >= q}
        IN  /\ above # {} => ret.val = Some(Smallest(above))
            /\ above = {} <=> ret.val = None

\* ceiling of a key that is not in the table, answered by a node that is not
\* the root, in a table that also holds a smaller key
C9_Witness ==
    /\ ret.op = "ceiling"
    /\ ret.arg[1] \notin KeysPut(history)
    /\ is_some(ret.val)
    /\ ret.val[1] # root[1].key
    /\ \E k \in KeysPut(history) : k < ret.arg[1]

\* C10: for k in [0, size()), select(k) returns the key with exactly k
\* smaller keys in the table, and rank of that key is k.
C10_SelectRank ==
    (ret.op = "select" /\ ret.arg[1] < Cardinality(KeysPut(history))) =>
        /\ panic = ""
        /\ is_some(ret.val)
        /\ ret.val[1] \in KeysPut(history)
        /\ Cardinality({x \in KeysPut(history) : x < ret.val[1]}) = ret.arg[1]
        /\ rank(root, ret.val[1]) = Returned(ret.arg[1])

\* C11: for a key that is in the table, after delete(key) get(key) is None,
\* size() is one less, every other key keeps its value, keys() is strictly
\* ascending and the size invariant holds at every node.
C11_Delete ==
    (ret.op = "delete" /\ ret.arg[1] \in KeysPut(history)) =>
        /\ panic = ""
        /\ get(root, ret.arg[1]) = None
        /\ size(root) = Cardinality(KeysPut(history)) - 1
        /\ \A k \in KeysPut(history) \ {ret.arg[1]} :
              get(root, k) = LastPut(history, k)
        /\ StrictlyAscending(keys(root))
        /\ C1_SizeInvariant

\* C12: delete_min() on a non-empty table removes exactly the smallest key:
\* keys() is the former keys() without its first element, size() is one
\* less, the other keys keep their values and the size invariant holds.
C12_DeleteMin ==
    (ret.op = "delete_min" /\ history # << >>) =>
        /\ panic = ""
        /\ StrictlyAscending(keys(root))
        /\ Range(keys(root)) = KeysPut(history) \ {Smallest(KeysPut(history))}
        /\ size(root) = Cardinality(KeysPut(history)) - 1
        /\ \A k \in KeysPut(history) \ {Smallest(KeysPut(history))} :
              get(root, k) = LastPut(history, k)
        /\ C1_SizeInvariant

\* ------------------------------------------------------------------------
\* C13..C18: BinarySearchTree
\* ------------------------------------------------------------------------

\* every call made so far is one of names
OnlyCalls(names) == \A i \in DOMAIN calls : calls[i][1] \in names

\* the keys of the items that were inserted, by insert or insert_at_root
KeysInserted ==
    {key_of(calls[i][2]) : i \in {j \in DOMAIN calls : calls[j][1] \in {"insert", "insert_at_root"}}}

ItemKeys(s) == [i \in DOMAIN s |-> key_of(s[i])]

Ascending(s) == \A i, j \in DOMAIN s : i < j => s[i] <= s[j]

\* t is s with x inserted at some position
InsertedInto(s, x, t) ==
    \E i \in 0..Len(s) : t = SubSeq(s, 1, i) \o <<x>> \o SubSeq(s, i + 1, Len(s))

\* C13: after any sequence of insert calls, also of items whose key is
\* already in the tree, show() yields strictly ascending keys: each key is
\* in at most one node.
C13_InsertUnique ==
    (ret.op = "show" /\ OnlyCalls({"insert"})) =>
        StrictlyAscending(ItemKeys(ret.val))

\* C14: after insert_at_root(item) on a tree built by insert and
\* insert_at_root calls the node at head holds item, and show() is the
\* former show() with item inserted at its sorted position; no item that was
\* stored is lost or duplicated.
C14_InsertAtRoot ==
    [][(ret'.op = "insert_at_root" /\ OnlyCalls({"insert", "insert_at_root"})) =>
          /\ bst'.head # None
          /\ bst'.heap[bst'.head[1]].item = ret'.arg[1]
          /\ InsertedInto(show(bst), ret'.arg[1], show(bst'))
          /\ Ascending(ItemKeys(show(bst')))
          /\ Cardinality(DOMAIN bst'.heap) = Cardinality(DOMAIN bst.heap) + 1
          /\ \A a \in DOMAIN bst.heap :
                /\ a \in DOMAIN bst'.heap
                /\ bst'.heap[a].item = bst.heap[a].item]_vars

\* insert_at_root of an item that ends up between the three items stored
\* before it
C14_Witness ==
    /\ ret.op = "insert_at_root"
    /\ Len(calls) = 4
    /\ \A i \in 1..3 : calls[i][1] = "insert"
    /\ bst.heap[bst.head[1]].item = ret.arg[1]
    /\ bst.heap[bst.head[1]].left # None
    /\ bst.heap[bst.head[1]].right # None
    /\ Len(show(bst)) = 4

\* C15: for every tree, the empty one and those whose root lacks the child
\* that would be promoted included, rotate_right and rotate_left on the root
\* link leave the in-order traversal as it was and neither create nor
\* destroy nodes.
C15_RotationPreservesOrder ==
    [][ret'.op \in {"rotate_right", "rotate_left"} =>
          /\ show(bst') = show(bst)
          /\ DOMAIN bst'.heap = DOMAIN bst.heap]_vars

\* C16: when the root S has a left child E, after rotate_right the root is
\* E, E's right child is S, S's left child is E's former right child, and
\* E's left subtree, S's right subtree and every other node are unchanged.
C16_RotateRight ==
    [][(ret'.op = "rotate_right" /\ bst.head # None
            /\ bst.heap[bst.head[1]].left # None) =>
          LET s == bst.head[1]
              e == bst.heap[s].left[1]
          IN  /\ bst'.head = Some(e)
              /\ bst'.heap[e].right = Some(s)
              /\ bst'.heap[s].left = bst.heap[e].right
              /\ bst'.heap[e].left = bst.heap[e].left
              /\ bst'.heap[s].right = bst.heap[s].right
              /\ bst'.heap[e].item = bst.heap[e].item
              /\ bst'.heap[s].item = bst.heap[s].item
              /\ DOMAIN bst'.heap = DOMAIN bst.heap
              /\ \A a \in DOMAIN bst.heap \ {s, e} : bst'.heap[a] = bst.heap[a]]_vars

\* a rotate_right that moved E's right subtree to S, S keeping a right child
C16_Witness ==
    /\ ret.op = "rotate_right"
    /\ bst.head # None
    /\ bst.heap[bst.head[1]].right # None
    /\ bst.heap[bst.heap[bst.head[1]].right[1]].left # None
    /\ Cardinality(DOMAIN bst.heap) >= 3
    /\ Ascending(ItemKeys(show(bst)))

\* C17: when the root A has a right child E, after rotate_left the root is
\* E, E's left child is A, A's right child is E's former left child, and
\* A's left subtree, E's right subtree and every other node are unchanged.
C17_RotateLeft ==
    [][(ret'.op = "rotate_left" /\ bst.head # None
            /\ bst.heap[bst.head[1]].right # None) =>
          LET a_node == bst.head[1]
              e == bst.heap[a_node].right[1]
          IN  /\ bst'.head = Some(e)
              /\ bst'.heap[e].left = Some(a_node)
              /\ bst'.heap[a_node].right = bst.heap[e].left
              /\ bst'.heap[a_node].left = bst.heap[a_node].left
              /\ bst'.heap[e].right = bst.heap[e].right
              /\ bst'.heap[e].item = bst.heap[e].item
              /\ bst'.heap[a_node].item = bst.heap[a_node].item
              /\ DOMAIN bst'.heap = DOMAIN bst.heap
              /\ \A a \in DOMAIN bst.heap \ {a_node, e} : bst'.heap[a] = bst.heap[a]]_vars

\* a rotate_left that moved E's left subtree to A
C17_Witness ==
    /\ ret.op = "rotate_left"
    /\ bst.head # None
    /\ bst.heap[bst.head[1]].left # None
    /\ bst.heap[bst.heap[bst.head[1]].left[1]].right # None
    /\ Cardinality(DOMAIN bst.heap) >= 3
    /\ Ascending(ItemKeys(show(bst)))

\* C18: after any sequence of insert and insert_at_root calls, search(key)
\* returns Some(item) with item.key() = key if an item with that key was
\* inserted, and None, never a panic or another item, if none was.
C18_Search ==
    (ret.op = "search" /\ OnlyCalls({"insert", "insert_at_root"})) =>
        /\ panic = ""
        /\ ret.arg[1] \in KeysInserted =>
              (is_some(ret.val) /\ key_of(ret.val[1]) = ret.arg[1])
        /\ ret.arg[1] \notin KeysInserted => ret.val = None

\* a search that found an item below the root of a tree built by both
\* insert and insert_at_root
C18_Witness ==
    /\ ret.op = "search"
    /\ OnlyCalls({"insert", "insert_at_root"})
    /\ \E i \in DOMAIN calls : calls[i][1] = "insert"
    /\ \E i \in DOMAIN calls : calls[i][1] = "insert_at_root"
    /\ is_some(ret.val)
    /\ key_of(ret.val[1]) # key_of(bst.heap[bst.head[1]].item)
    /\ Cardinality(DOMAIN bst.heap) = 4

\* ------------------------------------------------------------------------
\* C20: ArraySymbolTable
\* ------------------------------------------------------------------------

\* C20: after any sequence of insert calls that leaves the table below its
\* capacity, search(key) returns Some(item) with that key if such an item
\* was inserted, and None for every key that was never inserted.
C20_ArraySearch ==
    (ret.op = "search" /\ OnlyCalls({"insert"}) /\ ast.count < Len(ast.items)) =>
        /\ ret.arg[1] \in KeysInserted =>
              (is_some(ret.val) /\ key_of(ret.val[1]) = ret.arg[1])
        /\ ret.arg[1] \notin KeysInserted => ret.val = None

\* ------------------------------------------------------------------------
\* C19: FrequencyCounter
\* ------------------------------------------------------------------------

\* the positions of the input whose word is at least min_length long
Qualifying == {i \in DOMAIN fc.input : str_len(fc.input[i]) >= fc.min_length}

\* how often word is at a qualifying position
Occurrences(word) == Cardinality({i \in Qualifying : fc.input[i] = word})

RECURSIVE Paths(_)
Paths(link) ==
    IF link = None
    THEN {}
    ELSE {<< >>} \cup {<<"L">> \o p : p \in Paths(link[1].left)}
                \cup {<<"R">> \o p : p \in Paths(link[1].right)}

\* the link at the end of a path
RECURSIVE At(_, _)
At(link, path) ==
    IF link = None \/ path = << >>
    THEN link
    ELSE At(IF Head(path) = "L" THEN link[1].left ELSE link[1].right, Tail(path))

\* the path a search for key follows: it ends at the node with the key, or
\* at the absent link where the key would be
RECURSIVE SearchPath(_, _)
SearchPath(link, key) ==
    IF link = None \/ link[1].key = key
    THEN << >>
    ELSE IF key < link[1].key
         THEN <<"L">> \o SearchPath(link[1].left, key)
         ELSE <<"R">> \o SearchPath(link[1].right, key)

IsPrefix(p, q) == Len(p) <= Len(q) /\ SubSeq(q, 1, Len(p)) = p

\* C21: a put of a key that is not in the table creates exactly one node, a
\* leaf at the absent link where the search for the key ends; every node
\* that was there stays at its place with its key and its value, and n
\* changes only on the search path.  A put of a key that is in the table
\* changes the value of its node and nothing else.
C21_PutShape ==
    [][ret'.op = "put" =>
          LET k == ret'.arg[1]
              v == ret'.arg[2]
              p == SearchPath(root, k)
              old == Paths(root)
          IN  IF k \notin KeysPut(history)
              THEN /\ p \notin old
                   /\ Paths(root') = old \cup {p}
                   /\ At(root', p) = Some(NewNode(k, v, 1))
                   /\ \A q \in old :
                         /\ At(root', q)[1].key = At(root, q)[1].key
                         /\ At(root', q)[1].value = At(root, q)[1].value
                         /\ At(root', q)[1].n # At(root, q)[1].n => IsPrefix(q, p)
              ELSE /\ p \in old
                   /\ Paths(root') = old
                   /\ At(root', p)[1].value = v
                   /\ \A q \in old :
                         /\ At(root', q)[1].key = At(root, q)[1].key
                         /\ At(root', q)[1].n = At(root, q)[1].n
                         /\ q # p => At(root', q)[1].value = At(root, q)[1].value]_vars

\* a third put that hangs a new leaf below a child of the root, the root
\* having another child that is off the search path
C21_Witness ==
    /\ ret.op = "put"
    /\ Len(history) = 3
    /\ Paths(root) = {<< >>, <<"L">>, <<"R">>}
    /\ At(root, <<"R">>)[1].key = history[3][1]
    /\ root[1].n = 3

\* C22: a put adds to compares_put the number of nodes whose key it
\* compares with the new key: the depth of the new leaf for a key that is
\* not in the table (0 for the empty table), the depth of the node plus one
\* for a key that is in the table.  compares_put never decreases and no
\* query changes it.
C22_ComparesPut ==
    [][/\ compares_put' >= compares_put
       /\ ret'.op = "put" =>
              LET k == ret'.arg[1]
                  depth == Len(SearchPath(root, k))
              IN  /\ root = None => compares_put' = compares_put
                  /\ k \notin KeysPut(history) => compares_put' = compares_put + depth
                  /\ k \in KeysPut(history) => compares_put' = compares_put + depth + 1
       /\ ret'.op \in {"get", "contains", "floor", "ceiling", "min", "max",
                       "keys", "size", "is_empty"} =>
              compares_put' = compares_put]_vars

\* put(a); put(b); put(b) with a # b: 0, then 1, then 2 comparisons
C22_Witness ==
    /\ ret.op = "put"
    /\ Len(history) = 3
    /\ history[1][1] # history[2][1]
    /\ history[2][1] = history[3][1]
    /\ compares_put = 3

\* ------------------------------------------------------------------------
\* C23: ownership in the BinarySearchTree
\* ------------------------------------------------------------------------

\* the addresses that the links of a node hold
Children(h, a) ==
    {c \in DOMAIN h : h[a].left = Some(c) \/ h[a].right = Some(c)}

\* the addresses that can be reached from the addresses in S in at most
\* steps steps
RECURSIVE Reach(_, _, _)
Reach(h, S, steps) ==
    IF steps = 0
    THEN S
    ELSE Reach(h, S \cup UNION {Children(h, a) : a \in S}, steps - 1)

\* the addresses that can be reached from head
Reachable(t) ==
    Reach(t.heap, {a \in DOMAIN t.heap : t.head = Some(a)}, Cardinality(DOMAIN t.heap))

\* the number of links, head included, that hold the address a
References(t, a) ==
    (IF t.head = Some(a) THEN 1 ELSE 0)
    + Cardinality({b \in DOMAIN t.heap : t.heap[b].left = Some(a)})
    + Cardinality({b \in DOMAIN t.heap : t.heap[b].right = Some(a)})

\* no link holds the address of a node that was freed
NoDanglingLink(t) ==
    /\ t.head # None => t.head[1] \in DOMAIN t.heap
    /\ \A a \in DOMAIN t.heap :
          /\ t.heap[a].left # None => t.heap[a].left[1] \in DOMAIN t.heap
          /\ t.heap[a].right # None => t.heap[a].right[1] \in DOMAIN t.heap

\* C23: after any sequence of insert, insert_at_root, rotate_right and
\* rotate_left the nodes reachable from head form a tree: every node is held
\* by exactly one link (head or one child link of one node), no node is
\* reached by two paths and no node is reached from itself, so that show
\* visits every node exactly once.  (A rotation applied where the promoted
\* child is absent leaves the empty tree, which is a tree as well.)
C23_TreeShaped ==
    /\ NoDanglingLink(bst)
    /\ \A a \in Reachable(bst) : References(bst, a) = 1
    /\ \A a \in DOMAIN bst.heap :
          a \notin Reach(bst.heap, Children(bst.heap, a), Cardinality(DOMAIN bst.heap))
    /\ Len(show(bst)) = Cardinality(Reachable(bst))
    /\ Reachable(bst) = DOMAIN bst.heap

\* a right rotation at the head that handed the right subtree of the
\* promoted node to the old head
C23_Witness ==
    /\ ret.op = "rotate_right"
    /\ Cardinality(DOMAIN bst.heap) >= 3
    /\ bst.head # None
    /\ bst.heap[bst.head[1]].right # None
    /\ bst.heap[bst.heap[bst.head[1]].right[1]].left # None

\* ------------------------------------------------------------------------
\* C24..C25: count()
\* ------------------------------------------------------------------------

\* C24: after any sequence of insert and insert_at_root calls, count() is
\* the number of items in the tree, the length of show().
C24_Count ==
    OnlyCalls({"insert", "insert_at_root"}) => count(bst) = Len(show(bst))

\* the items that the first n calls inserted and did not remove, by
\* ascending key; a remove takes out one item with the key of its argument
RECURSIVE Stored(_)
Stored(n) ==
    IF n = 0
    THEN << >>
    ELSE LET before == Stored(n - 1)
             item == calls[n][2]
             same == {i \in DOMAIN before : item_eq(before[i], item)}
             smaller == {i \in DOMAIN before : key_of(before[i]) <= key_of(item)}
         IN  CASE calls[n][1] = "insert" ->
                    SubSeq(before, 1, Cardinality(smaller)) \o <<item>>
                        \o SubSeq(before, Cardinality(smaller) + 1, Len(before))
               [] calls[n][1] = "remove" /\ same # {} ->
                    SubSeq(before, 1, Smallest(same) - 1)
                        \o SubSeq(before, Smallest(same) + 1, Len(before))
               [] OTHER -> before

\* C25: after any sequence of insert and remove calls, count() is the
\* number of items stored, the length of show(): an insert raises it by one
\* and a remove of a stored item lowers it by one; show() lists the items
\* inserted and not removed, by ascending key.
C25_ArrayCount ==
    (OnlyCalls({"insert", "remove"}) /\ panic = "") =>
        /\ array_count(ast) = Len(array_show(ast))
        /\ array_count(ast) = Len(Stored(Len(calls)))
        /\ array_show(ast) = Stored(Len(calls))

====
